---- MODULE Spec2Model ----
(***************************************************************************)
(* The extract / transform / load pipeline of etl.py (run_etl and the      *)
(* three stages it calls), with the upstream price service, the exchange   *)
(* rate CSV and the SQLite store as its environment.                       *)
(*                                                                         *)
(* Strings are tuples of one-character strings, so that str.lower(),       *)
(* str.upper() and the substring test of the code are computed.            *)
(* Numbers are decimal records [m, e] standing for m * 10^e, normalised    *)
(* (no trailing zero in m), so that the product and the rounding to 8      *)
(* decimal places are computed exactly.                                    *)
(***************************************************************************)
EXTENDS Integers, Sequences, FiniteSets, TLC

VARIABLES
    pc,          \* position of run_etl: idle, extract, transform, load, return, returned, raised
    runs,        \* number of pipeline runs started
    clock,       \* the wall clock read by datetime.now()
    rateFile,    \* the file at EXCHANGE_CSV
    upstream,    \* what the price service did for the request of this run
    requests,    \* requests.get calls issued by this run
    heap,        \* the DataFrame objects of this run: object id -> table
    df,          \* run_etl's df  (object id, 0 before extract returned)
    df2,         \* run_etl's df2 (object id, 0 before transform returned)
    quote,       \* the table extract returned, as it was when it returned
    xform,       \* how transform ended in this run
    loadResult,  \* how load_to_sqlite ended in this run
    passed,      \* the table passed to the last Load that completed successfully
    dirty,       \* a Load has failed since the last successful one
    returned,    \* the object id run_etl returned (0: nothing returned yet)
    prev,        \* the table the first call of transform in this run returned
    storeBefore, \* the store as it was when this run started
    store,       \* the table crypto_prices of crypto_data.db
    log          \* the lines this run appended to code_log.txt

vars == <<pc, runs, clock, rateFile, upstream, requests, heap, df, df2, quote,
          xform, loadResult, passed, dirty, returned, prev, storeBefore, store, log>>

-----------------------------------------------------------------------------
(* Bounds of the model *)

MaxRuns == 2
MaxRateRows == 2

-----------------------------------------------------------------------------
(* Characters and strings *)

Lowers == <<"a","b","c","d","e","f","g","h","i","j","k","l","m",
            "n","o","p","q","r","s","t","u","v","w","x","y","z">>
Uppers == <<"A","B","C","D","E","F","G","H","I","J","K","L","M",
            "N","O","P","Q","R","S","T","U","V","W","X","Y","Z">>

IndexIn(ch, alphabet) ==
    IF \E i \in DOMAIN alphabet : alphabet[i] = ch
    THEN CHOOSE i \in DOMAIN alphabet : alphabet[i] = ch
    ELSE 0

LowerChar(ch) == IF IndexIn(ch, Uppers) = 0 THEN ch ELSE Lowers[IndexIn(ch, Uppers)]
UpperChar(ch) == IF IndexIn(ch, Lowers) = 0 THEN ch ELSE Uppers[IndexIn(ch, Lowers)]

\* str.lower() and str.upper()
Lower(s) == [i \in DOMAIN s |-> LowerChar(s[i])]
Upper(s) == [i \in DOMAIN s |-> UpperChar(s[i])]

\* the Python test  needle in s
Contains(s, needle) ==
    \E i \in 0..(Len(s) - Len(needle)) :
        \A j \in 1..Len(needle) : s[i + j] = needle[j]

Str_pkr == <<"p","k","r">>
Str_PKR == <<"P","K","R">>
Str_usd == <<"u","s","d">>
Str_USD == <<"U","S","D">>
Str_eur == <<"e","u","r">>
Str_crypto == <<"c","r","y","p","t","o">>
Str_pkr_24h_vol == <<"p","k","r","_","2","4","h","_","v","o","l">>
Str_price_in_ == <<"p","r","i","c","e","_","i","n","_">>
Str_last_updated == <<"l","a","s","t","_","u","p","d","a","t","e","d">>
Str_bitcoin == <<"b","i","t","c","o","i","n">>
Str_ethereum == <<"e","t","h","e","r","e","u","m">>
Str_dogecoin == <<"d","o","g","e","c","o","i","n">>
Str_1 == <<"1">>

-----------------------------------------------------------------------------
(* Cell values: numbers, missing values (NaN / NULL), strings, timestamps *)

RECURSIVE Pow10(_)
Pow10(k) == IF k <= 0 THEN 1 ELSE 10 * Pow10(k - 1)

RECURSIVE Norm(_, _)
Norm(m, e) ==
    IF m = 0 THEN [m |-> 0, e |-> 0]
    ELSE IF m % 10 = 0 THEN Norm(m \div 10, e + 1)
    ELSE [m |-> m, e |-> e]

Num(m, e) == [kind |-> "num", m |-> Norm(m, e).m, e |-> Norm(m, e).e, s |-> <<>>]
Null == [kind |-> "null", m |-> 0, e |-> 0, s |-> <<>>]
Text(s) == [kind |-> "str", m |-> 0, e |-> 0, s |-> s]
Stamp(t) == [kind |-> "time", m |-> t, e |-> 0, s |-> <<>>]

\* Series * float : a missing value stays missing
Times(v, rate) ==
    IF v.kind = "null" THEN Null ELSE Num(v.m * rate.m, v.e + rate.e)

Decimals == 8

\* Series.round(8): to the nearest multiple of 10^-8, a tie to the even one
RoundHalfEven(v) ==
    IF v.kind = "null" \/ v.e >= -Decimals THEN v
    ELSE LET d == Pow10((-Decimals) - v.e)
             q == v.m \div d
             r == v.m % d
             up == (2 * r > d) \/ (2 * r = d /\ q % 2 = 1)
         IN  Num(IF up THEN q + 1 ELSE q, -Decimals)

\* variant: the digits after the eighth are cut off instead of rounded
RoundDown(v) ==
    IF v.kind = "null" \/ v.e >= -Decimals THEN v
    ELSE Num(v.m \div Pow10((-Decimals) - v.e), -Decimals)

Round8(v) == RoundHalfEven(v)

-----------------------------------------------------------------------------
(* DataFrames: an ordered list of column names and a list of rows, each    *)
(* row holding one value per column                                        *)

EmptyFrame == [cols |-> <<>>, rows |-> <<>>]

\* DataFrame.empty: no rows or no columns
IsEmpty(t) == Len(t.cols) = 0 \/ Len(t.rows) = 0

HasCol(t, name) == \E i \in DOMAIN t.cols : t.cols[i] = name

ColIndex(t, name) == CHOOSE i \in DOMAIN t.cols :
    t.cols[i] = name /\ \A j \in 1..(i - 1) : t.cols[j] # name

\* df[name]
Column(t, name) == [r \in DOMAIN t.rows |-> t.rows[r][ColIndex(t, name)]]

\* df[name] = vals : an existing column is overwritten where it stands, a new
\* one is appended after the others
SetColumn(t, name, vals) ==
    IF HasCol(t, name)
    THEN [t EXCEPT !.rows =
            [r \in DOMAIN t.rows |-> [t.rows[r] EXCEPT ![ColIndex(t, name)] = vals[r]]]]
    ELSE [cols |-> Append(t.cols, name),
          rows |-> [r \in DOMAIN t.rows |-> Append(t.rows[r], vals[r])]]

-----------------------------------------------------------------------------
(* Extract: the JSON payload {asset: {currency: price}} as a DataFrame     *)

Quote(cur, price) == [cur |-> cur, price |-> price]
Asset(name, quotes) == [asset |-> name, quotes |-> quotes]

AppendNew(seq, x) ==
    IF \E i \in DOMAIN seq : seq[i] = x THEN seq ELSE Append(seq, x)

RECURSIVE AddCurrencies(_, _, _)
AddCurrencies(acc, quotes, i) ==
    IF i > Len(quotes) THEN acc
    ELSE AddCurrencies(AppendNew(acc, quotes[i].cur), quotes, i + 1)

\* the index of pd.DataFrame(data): the currency codes of all assets, in
\* order of first appearance
RECURSIVE Currencies(_, _)
Currencies(payload, i) ==
    IF i = 0 THEN <<>>
    ELSE AddCurrencies(Currencies(payload, i - 1), payload[i].quotes, 1)

PriceOf(quotes, cur) ==
    IF \E i \in DOMAIN quotes : quotes[i].cur = cur
    THEN quotes[CHOOSE i \in DOMAIN quotes : quotes[i].cur = cur].price
    ELSE Null

\* pd.DataFrame(data).T.reset_index().rename(columns={"index": "crypto"})
FrameOf(payload) ==
    LET curs == Currencies(payload, Len(payload))
    IN  [cols |-> <<Str_crypto>> \o curs,
         rows |-> [a \in DOMAIN payload |->
                     <<Text(payload[a].asset)>> \o
                     [c \in DOMAIN curs |-> PriceOf(payload[a].quotes, curs[c])]]]

\* what the except branch of extract returns
FailureFrame == EmptyFrame

Line(stage, event, arg) == [stage |-> stage, event |-> event, arg |-> arg]

\* variant: a failed request is tried a second time
ExtractRetrying(outcome) ==
    IF outcome.kind = "ok"
    THEN [table |-> FrameOf(outcome.payload),
          lines |-> <<Line("Extract", "started", <<>>),
                      Line("Extract", "completed successfully", <<>>)>>,
          requests |-> 1]
    ELSE [table |-> FailureFrame,
          lines |-> <<Line("Extract", "started", <<>>),
                      Line("Extract", "failed", <<>>)>>,
          requests |-> 2]

\* extract() as a function of what the service did: the table it returns,
\* the lines it logs and the requests it issues
ExtractOp(outcome) ==
    IF outcome.kind = "ok"
    THEN [table |-> FrameOf(outcome.payload),
          lines |-> <<Line("Extract", "started", <<>>),
                      Line("Extract", "completed successfully", <<>>)>>,
          requests |-> 1]
    ELSE [table |-> FailureFrame,
          lines |-> <<Line("Extract", "started", <<>>),
                      Line("Extract", "failed", <<>>)>>,
          requests |-> 1]

-----------------------------------------------------------------------------
(* The exchange rate CSV and pd.read_csv(...).to_dict()['Rate']            *)

RateRow(name, digits, num, m, e) ==
    [name |-> name, digits |-> digits, num |-> num, m |-> m, e |-> e]

\* read_csv infers one type per column: the index is integer when every name
\* is a number and text otherwise; the Rate column is float when every cell
\* is a number and text otherwise
KeyOf(rows, i) ==
    [kind |-> IF \A j \in DOMAIN rows : rows[j].digits THEN "int" ELSE "str",
     chars |-> rows[i].name]

CellOf(rows, i) ==
    [kind |-> IF \A j \in DOMAIN rows : rows[j].num THEN "float" ELSE "str",
     num |-> rows[i].num, m |-> rows[i].m, e |-> rows[i].e]

\* d[k] = v on an insertion-ordered dict
DictPut(d, k, v) ==
    IF \E i \in DOMAIN d : d[i].k = k
    THEN [d EXCEPT ![CHOOSE i \in DOMAIN d : d[i].k = k] = [k |-> k, v |-> v]]
    ELSE Append(d, [k |-> k, v |-> v])

RECURSIVE ToDict(_, _)
ToDict(rows, i) ==
    IF i = 0 THEN <<>>
    ELSE DictPut(ToDict(rows, i - 1), KeyOf(rows, i), CellOf(rows, i))

ReadRates(file) == ToDict(file.rows, Len(file.rows))

\* k.lower() exists for str keys only
CanLower(k) == k.kind = "str"

RECURSIVE LowerKeys(_, _)
LowerKeys(d, i) ==
    IF i = 0 THEN <<>>
    ELSE DictPut(LowerKeys(d, i - 1),
                 [kind |-> d[i].k.kind, chars |-> Lower(d[i].k.chars)], d[i].v)

\* float(rate) succeeds
Parses(cell) == cell.kind = "float" \/ cell.num

Float(cell) == Num(cell.m, cell.e)

-----------------------------------------------------------------------------
(* Transform *)

IsPkr(c) == Lower(c) = Str_pkr \/ Contains(Lower(c), Str_pkr)

\* variant: the loop does not stop at the first match
FindPkrColLast(t) ==
    IF \E i \in DOMAIN t.cols : IsPkr(t.cols[i])
    THEN CHOOSE i \in DOMAIN t.cols :
            IsPkr(t.cols[i]) /\ \A j \in (i + 1)..Len(t.cols) : ~IsPkr(t.cols[j])
    ELSE 0

\* the loop that finds pkr_col: the first column that matches (0: none)
FindPkrCol(t) ==
    IF \E i \in DOMAIN t.cols : IsPkr(t.cols[i])
    THEN CHOOSE i \in DOMAIN t.cols :
            IsPkr(t.cols[i]) /\ \A j \in 1..(i - 1) : ~IsPkr(t.cols[j])
    ELSE 0

\* f"price_in_{cur.upper()}"
PriceCol(cur) == Str_price_in_ \o Upper(cur)

\* (df[pkr_col] * rate).round(8)
Converted(t, base, rate) ==
    [r \in DOMAIN t.rows |-> Round8(Times(Column(t, base)[r], rate))]

\* the loop over rates.items(): the table after it and the warnings it logs
RECURSIVE Convert(_, _, _, _)
Convert(t, base, rates, i) ==
    IF i > Len(rates) THEN [table |-> t, lines |-> <<>>]
    ELSE IF ~Parses(rates[i].v)
    THEN LET rest == Convert(t, base, rates, i + 1)
         IN  [table |-> rest.table,
              lines |-> <<Line("Transform", "skipping invalid rate for", rates[i].k.chars)>>
                        \o rest.lines]
    ELSE Convert(SetColumn(t, PriceCol(rates[i].k.chars),
                           Converted(t, base, Float(rates[i].v))),
                 base, rates, i + 1)

\* variant: the time stamp column is not added
NoStamp(t, now) == t

\* df['last_updated'] = datetime.now(...).isoformat()
AddLastUpdated(t, now) ==
    SetColumn(t, Str_last_updated, [r \in DOMAIN t.rows |-> Stamp(now)])

Abort(t, reason) ==
    [status |-> "aborted", reason |-> reason, table |-> t,
     lines |-> <<Line("Transform", "started", <<>>), Line("Transform", reason, <<>>)>>]

\* transform(df) as a function of the table df refers to, the rate file and
\* the time: how it ends, the table df refers to afterwards (the code assigns
\* the new columns to df itself) and the lines it logs
TransformOp(t, file, now) ==
    IF IsEmpty(t) THEN Abort(t, "aborted (empty DataFrame)")
    ELSE IF file.state = "missing" THEN Abort(t, "exchange CSV not found")
    ELSE IF file.state \in {"garbled", "no_rate_column"}
    THEN Abort(t, "failed to read CSV")
    ELSE LET raw == ReadRates(file) IN
    IF \E i \in DOMAIN raw : ~CanLower(raw[i].k)
    THEN [status |-> "raised", reason |-> "AttributeError", table |-> t,
          lines |-> <<Line("Transform", "started", <<>>)>>]
    ELSE LET rates == LowerKeys(raw, Len(raw))
             base == FindPkrCol(t)
         IN
    IF base = 0 THEN Abort(t, "PKR column not found in DataFrame")
    ELSE LET conv == Convert(t, t.cols[base], rates, 1)
         IN  [status |-> "completed", reason |-> "", 
              table |-> AddLastUpdated(conv.table, now),
              lines |-> <<Line("Transform", "started", <<>>)>> \o conv.lines
                        \o <<Line("Transform", "completed", <<>>)>>]

-----------------------------------------------------------------------------
(* Load *)

Absent == [exists |-> FALSE, cols |-> <<>>, rows |-> <<>>]

\* variant: if_exists="append"
Appended(old, t) ==
    IF old.exists /\ old.cols = t.cols
    THEN [exists |-> TRUE, cols |-> t.cols, rows |-> old.rows \o t.rows]
    ELSE [exists |-> TRUE, cols |-> t.cols, rows |-> t.rows]

\* df.to_sql(table_name, conn, if_exists="replace", index=False)
Replaced(old, t) == [exists |-> TRUE, cols |-> t.cols, rows |-> t.rows]

\* a to_sql that raised while inserting: the old table is already dropped
\* and the new one created
Truncated(old, t) == [exists |-> TRUE, cols |-> t.cols, rows |-> <<>>]

LoadOutcomes == {"ok", "connect_error", "write_error"}

\* load_to_sqlite(df) as a function of the table, the store and what the
\* database did
LoadOp(t, old, outcome) ==
    IF IsEmpty(t)
    THEN [result |-> "aborted", store |-> old,
          lines |-> <<Line("Load", "started", <<>>),
                      Line("Load", "aborted (empty DataFrame)", <<>>)>>]
    ELSE IF outcome = "ok"
    THEN [result |-> "completed", store |-> Replaced(old, t),
          lines |-> <<Line("Load", "started", <<>>), Line("Load", "completed", <<>>)>>]
    ELSE [result |-> "failed",
          store |-> IF outcome = "write_error" THEN Truncated(old, t) ELSE old,
          lines |-> <<Line("Load", "started", <<>>), Line("Load", "failed", <<>>)>>]

-----------------------------------------------------------------------------
(* The environment: what the price service answers and what the rate file  *)
(* holds                                                                   *)

Payloads == {
    <<>>,
    <<Asset(Str_bitcoin, <<Quote(Str_pkr, Num(1000000, 0)), Quote(Str_usd, Num(3600, 0))>>)>>,
    <<Asset(Str_bitcoin, <<Quote(Str_PKR, Num(4, 0)), Quote(Str_pkr, Num(3, 0))>>),
      Asset(Str_ethereum, <<Quote(Str_usd, Num(5, 0))>>),
      Asset(Str_dogecoin, <<Quote(Str_PKR, Num(5, 0))>>)>>,
    <<Asset(Str_bitcoin, <<Quote(Str_usd, Num(3600, 0))>>)>>,
    <<Asset(Str_bitcoin, <<Quote(Str_usd, Num(1, 0)), Quote(Str_pkr_24h_vol, Num(15, 0)),
                           Quote(Str_pkr, Num(25, -1))>>)>> }

Failures == {"network_error", "timeout", "http_error", "bad_json"}

UpstreamOutcomes ==
    {[kind |-> "ok", payload |-> p] : p \in Payloads} \cup
    {[kind |-> f, payload |-> <<>>] : f \in Failures}

NoRequest == [kind |-> "none", payload |-> <<>>]

RateRows == {
    RateRow(Str_usd, FALSE, TRUE, 36, -4),
    RateRow(Str_eur, FALSE, TRUE, 7, -9),
    RateRow(Str_USD, FALSE, FALSE, 0, 0),
    RateRow(Str_pkr, FALSE, TRUE, 2, 0),
    RateRow(Str_1, TRUE, TRUE, 5, -1) }

RECURSIVE RowLists(_)
RowLists(n) ==
    IF n = 0 THEN {<<>>}
    ELSE RowLists(n - 1) \cup
         {Append(l, r) : l \in {x \in RowLists(n - 1) : Len(x) = n - 1}, r \in RateRows}

RateFiles ==
    {[state |-> st, rows |-> <<>>] : st \in {"missing", "garbled", "no_rate_column"}} \cup
    {[state |-> "ok", rows |-> l] : l \in RowLists(MaxRateRows)}

-----------------------------------------------------------------------------
(* run_etl, one action per stage *)

Init ==
    /\ pc = "idle"
    /\ runs = 0
    /\ clock = 0
    /\ rateFile \in RateFiles
    /\ upstream = NoRequest
    /\ requests = 0
    /\ heap = <<>>
    /\ df = 0
    /\ df2 = 0
    /\ quote = EmptyFrame
    /\ xform = "none"
    /\ loadResult = "none"
    /\ passed = EmptyFrame
    /\ dirty = FALSE
    /\ returned = 0
    /\ prev = EmptyFrame
    /\ storeBefore = Absent
    /\ store = Absent
    /\ log = <<>>

\* the "Run ETL now" button: run_etl is called
StartRun ==
    /\ pc \in {"idle", "returned", "raised"}
    /\ runs < MaxRuns
    /\ pc' = "extract"
    /\ runs' = runs + 1
    /\ clock' = clock + 1
    /\ upstream' = NoRequest
    /\ requests' = 0
    /\ heap' = <<>>
    /\ df' = 0
    /\ df2' = 0
    /\ quote' = EmptyFrame
    /\ xform' = "none"
    /\ loadResult' = "none"
    /\ returned' = 0
    /\ prev' = EmptyFrame
    /\ storeBefore' = store
    /\ log' = <<>>
    /\ UNCHANGED <<rateFile, passed, dirty, store>>

\* df = extract()
Extract ==
    /\ pc = "extract"
    /\ \E outcome \in UpstreamOutcomes :
        LET r == ExtractOp(outcome) IN
        /\ upstream' = outcome
        /\ requests' = requests + r.requests
        /\ heap' = Append(heap, r.table)
        /\ df' = Len(heap) + 1
        /\ quote' = r.table
        /\ log' = log \o r.lines
    /\ pc' = "transform"
    /\ UNCHANGED <<runs, clock, rateFile, df2, xform, loadResult, passed, dirty,
                   returned, prev, storeBefore, store>>

\* df2 = transform(df): the columns are assigned to the object df refers to,
\* and that same object is returned
Transform ==
    /\ pc = "transform"
    /\ LET r == TransformOp(heap[df], rateFile, clock) IN
        /\ heap' = [heap EXCEPT ![df] = r.table]
        /\ xform' = r.status
        /\ log' = log \o r.lines
        /\ prev' = r.table
        /\ IF r.status = "raised"
           THEN pc' = "raised" /\ df2' = df2
           ELSE pc' = "load" /\ df2' = df
    /\ UNCHANGED <<runs, clock, rateFile, upstream, requests, df, quote, loadResult,
                   passed, dirty, returned, storeBefore, store>>

\* load_to_sqlite(df2)
Load ==
    /\ pc = "load"
    /\ \E outcome \in LoadOutcomes :
        LET r == LoadOp(heap[df2], store, outcome) IN
        /\ store' = r.store
        /\ loadResult' = r.result
        /\ log' = log \o r.lines
        /\ passed' = IF r.result = "completed" THEN heap[df2] ELSE passed
        /\ dirty' = IF r.result = "completed" THEN FALSE
                    ELSE IF r.result = "failed" THEN TRUE ELSE dirty
    /\ pc' = "return"
    /\ UNCHANGED <<runs, clock, rateFile, upstream, requests, heap, df, df2, quote,
                   xform, returned, prev, storeBefore>>

\* return df2
Return ==
    /\ pc = "return"
    /\ returned' = df2
    /\ pc' = "returned"
    /\ UNCHANGED <<runs, clock, rateFile, upstream, requests, heap, df, df2, quote,
                   xform, loadResult, passed, dirty, prev, storeBefore, store, log>>

Next == StartRun \/ Extract \/ Transform \/ Load \/ Return

Spec == Init /\ [][Next]_vars

-----------------------------------------------------------------------------
(* transform as a function: called on a table extract can return, called   *)
(* again on the table it returned, and called on a fresh copy of the input *)

InitTransform ==
    /\ pc = "first"
    /\ runs = 0
    /\ clock = 0
    /\ rateFile \in RateFiles
    /\ upstream \in UpstreamOutcomes
    /\ requests = 0
    /\ heap = <<ExtractOp(upstream).table>>
    /\ df = 1
    /\ df2 = 0
    /\ quote = ExtractOp(upstream).table
    /\ xform = "none"
    /\ loadResult = "none"
    /\ passed = EmptyFrame
    /\ dirty = FALSE
    /\ returned = 0
    /\ prev = EmptyFrame
    /\ storeBefore = Absent
    /\ store = Absent
    /\ log = <<>>

\* out = transform(df)
TransformFirst ==
    /\ pc = "first"
    /\ LET r == TransformOp(heap[df], rateFile, clock + 1) IN
        /\ heap' = [heap EXCEPT ![df] = r.table]
        /\ xform' = r.status
        /\ log' = log \o r.lines
        /\ prev' = r.table
        /\ IF r.status = "raised"
           THEN pc' = "raised" /\ df2' = df2
           ELSE pc' = "again" /\ df2' = df
    /\ clock' = clock + 1
    /\ UNCHANGED <<runs, rateFile, upstream, requests, df, quote, loadResult, passed,
                   dirty, returned, storeBefore, store>>

\* transform(out)
TransformAgain ==
    /\ pc = "again"
    /\ LET r == TransformOp(heap[df2], rateFile, clock + 1) IN
        /\ heap' = [heap EXCEPT ![df2] = r.table]
        /\ log' = log \o r.lines
        /\ pc' = IF r.status = "raised" THEN "raised" ELSE "fresh"
    /\ clock' = clock + 1
    /\ UNCHANGED <<runs, rateFile, upstream, requests, df, df2, quote, xform, loadResult,
                   passed, dirty, returned, prev, storeBefore, store>>

\* transform(copy of the first input)
TransformFresh ==
    /\ pc = "fresh"
    /\ LET r == TransformOp(quote, rateFile, clock + 1) IN
        /\ heap' = Append(heap, r.table)
        /\ returned' = Len(heap) + 1
        /\ log' = log \o r.lines
        /\ pc' = IF r.status = "raised" THEN "raised" ELSE "done"
    /\ clock' = clock + 1
    /\ UNCHANGED <<runs, rateFile, upstream, requests, df, df2, quote, xform, loadResult,
                   passed, dirty, prev, storeBefore, store>>

NextTransform == TransformFirst \/ TransformAgain \/ TransformFresh

SpecTransform == InitTransform /\ [][NextTransform]_vars

-----------------------------------------------------------------------------
(* Vocabulary of the properties *)

ColSet(t) == {t.cols[i] : i \in DOMAIN t.cols}

IsPriceCol(c) == Len(c) >= Len(Str_price_in_) /\ SubSeq(c, 1, Len(Str_price_in_)) = Str_price_in_

\* transform has been called in this run and has ended, by returning or raising
TransformEnded == pc \in {"load", "return", "returned", "raised"}

\* load_to_sqlite has returned in this run
LoadEnded == pc \in {"return", "returned"}

NoPkrColumn(t) ==
    \A i \in DOMAIN t.cols :
        Lower(t.cols[i]) # Str_pkr /\ ~Contains(Lower(t.cols[i]), Str_pkr)

FirstRow(rows, name) == CHOOSE i \in DOMAIN rows :
    rows[i].name = name /\ \A j \in 1..(i - 1) : rows[j].name # name

\* row i of the rate file is the entry of the loaded rate table for its
\* currency: it is the last row with its name, and every other spelling of
\* the currency (in another case) first appears before this one does
Effective(rows, i) ==
    /\ \A j \in (i + 1)..Len(rows) : rows[j].name # rows[i].name
    /\ \A j \in DOMAIN rows :
        (Lower(rows[j].name) = Lower(rows[i].name) /\ rows[j].name # rows[i].name) =>
            FirstRow(rows, rows[j].name) < FirstRow(rows, rows[i].name)

\* the price_in_* columns the valid entries of the rate table call for
ExpectedPriceCols(file) ==
    {Str_price_in_ \o Upper(file.rows[i].name) :
        i \in {j \in DOMAIN file.rows : file.rows[j].num /\ Effective(file.rows, j)}}

Warnings(lines, cur) ==
    Len(SelectSeq(lines, LAMBDA l : l.event = "skipping invalid rate for" /\ l.arg = cur))

-----------------------------------------------------------------------------
(* C1: run_etl never hard-fails its caller: whatever the price service,    *)
(* the rate file and the store do, no exception leaves extract, transform  *)
(* or load_to_sqlite, and run_etl ends by returning a table.               *)

C1_RunEtlNeverRaises == pc # "raised"

-----------------------------------------------------------------------------
(* C2: after any sequence of runs the store holds exactly the rows and     *)
(* columns of the table passed to the most recent Load that completed      *)
(* successfully, and a run whose table is empty leaves the store as it was *)
(* before that run and logs that Load was aborted.                         *)

StoreHolds(t) ==
    IF t = EmptyFrame THEN ~store.exists
    ELSE store.exists /\ store.cols = t.cols /\ store.rows = t.rows

EmptyRunLeavesStore ==
    (LoadEnded /\ IsEmpty(heap[df2])) =>
        /\ store = storeBefore
        /\ loadResult = "aborted"
        /\ log[Len(log)] = Line("Load", "aborted (empty DataFrame)", <<>>)

\* the claim as stated
C2_StoreIsLastSuccessfulLoad == StoreHolds(passed) /\ EmptyRunLeavesStore

\* the claim as amended: it speaks of the store only while no Load has
\* failed since the last successful one
C2_StoreIsLastLoadUnlessFailed == (~dirty => StoreHolds(passed)) /\ EmptyRunLeavesStore

\* a second snapshot has overwritten a different first one
C2_Overwritten ==
    /\ LoadEnded /\ loadResult = "completed" /\ ~dirty
    /\ storeBefore.exists /\ Len(storeBefore.rows) > 0
    /\ storeBefore.rows # store.rows
    /\ store.rows = heap[df2].rows

-----------------------------------------------------------------------------
(* C3: whenever the store has been written by a successful Load, its       *)
(* columns are the QuoteTable columns, the derived price_in_* columns and  *)
(* last_updated; last_updated is there whatever happened in Transform.     *)

StoredColumnsComplete ==
    ColSet(store) = ColSet(quote) \cup ExpectedPriceCols(rateFile) \cup {Str_last_updated}

\* the claim as stated
C3_StoredColumnsAlways ==
    (LoadEnded /\ loadResult = "completed") => StoredColumnsComplete

\* the claim as amended: the full column set when Transform converted, the
\* QuoteTable columns alone when Transform aborted on a precondition
C3_StoredColumnsByTransform ==
    (LoadEnded /\ loadResult = "completed") =>
        /\ xform = "completed" => StoredColumnsComplete
        /\ xform = "aborted" => store.cols = quote.cols

C3_StoredConverted ==
    /\ LoadEnded /\ loadResult = "completed" /\ xform = "completed"
    /\ \E i \in DOMAIN store.cols : IsPriceCol(store.cols[i])
    /\ Str_last_updated \in ColSet(store)

-----------------------------------------------------------------------------
(* C4: every precondition abort of transform is an unmodified pass        *)
(* through: with no rows, with the rate file missing or unparseable, or    *)
(* with no column that is or contains pkr, transform returns its input     *)
(* with the columns and values it had and logs the reason.                 *)

AbortCase ==
    \/ Len(quote.rows) = 0
    \/ rateFile.state # "ok"
    \/ NoPkrColumn(quote)

C4_AbortIsPassThrough ==
    (TransformEnded /\ AbortCase) =>
        /\ pc # "raised"
        /\ df2 = df
        /\ heap[df2] = quote
        /\ Len(log) >= 4
        /\ log[3] = Line("Transform", "started", <<>>)
        /\ log[4].stage = "Transform" /\ log[4].event # "completed"

-----------------------------------------------------------------------------
(* C5: when the request fails (network error, timeout, error status,       *)
(* unparseable payload) extract returns a table with no rows after exactly *)
(* one request, and in every run extract logs exactly one start line and   *)
(* then exactly one completion line.                                       *)

ExtractLines == SelectSeq(log, LAMBDA l : l.stage = "Extract")

C5_ExtractFailsEmptyOnce ==
    (pc \notin {"idle", "extract"}) =>
        /\ requests = 1
        /\ Len(ExtractLines) = 2
        /\ log[1] = Line("Extract", "started", <<>>)
        /\ log[2] = Line("Extract", IF upstream.kind = "ok" THEN "completed successfully"
                                    ELSE "failed", <<>>)
        /\ upstream.kind \in Failures => Len(quote.rows) = 0

C5_FailedExtract ==
    /\ pc = "transform"
    /\ upstream.kind = "timeout"
    /\ Len(heap[df].rows) = 0

-----------------------------------------------------------------------------
(* C6: rate rows succeed or fail independently: when the rate table parses *)
(* into its two columns, every row whose multiplier is not a number gives  *)
(* no price_in_<CUR> column and one warning naming that currency, every    *)
(* row with a valid multiplier still gives its column, and last_updated is *)
(* still added.                                                            *)

C6_RateRowsIndependent ==
    (TransformEnded /\ ~AbortCase) =>
        /\ pc # "raised"
        /\ \A i \in DOMAIN rateFile.rows :
            LET row == rateFile.rows[i]
                col == Str_price_in_ \o Upper(row.name)
            IN  IF row.num THEN HasCol(heap[df], col)
                ELSE ~HasCol(heap[df], col) /\ Warnings(log, Lower(row.name)) = 1
        /\ HasCol(heap[df], Str_last_updated)

-----------------------------------------------------------------------------
(* C7: when no precondition aborts, for every valid entry of the rate      *)
(* table and every row, the output has a column price_in_<CUR> holding the *)
(* row's pkr value times the multiplier rounded to 8 decimal places; the   *)
(* columns that were there keep their values and order and the new ones    *)
(* come after them.                                                        *)

\* the base currency column of the QuoteTable: the first that is or contains pkr
BaseIndex(t) == CHOOSE i \in DOMAIN t.cols :
    /\ ~NoPkrColumn([cols |-> <<t.cols[i]>>, rows |-> <<>>])
    /\ \A j \in 1..(i - 1) : NoPkrColumn([cols |-> <<t.cols[j]>>, rows |-> <<>>])

Abs(x) == IF x < 0 THEN -x ELSE x

\* v is b * (m * 10^e) rounded to 8 decimal places: a multiple of 10^-8 at
\* most half of 10^-8 away from the product; a missing price stays missing
IsRounded(v, b, m, e) ==
    IF b.kind = "null" THEN v.kind = "null"
    ELSE /\ v.kind = "num"
         /\ LET x == Norm(b.m * m, b.e + e) IN
            IF x.e >= -Decimals THEN v.m = x.m /\ v.e = x.e
            ELSE /\ v.e >= -Decimals
                 /\ 2 * Abs(v.m * Pow10(v.e - x.e) - x.m) <= Pow10((-Decimals) - x.e)

-----------------------------------------------------------------------------
(* C8: transform is idempotent up to last_updated: applied to its own      *)
(* output with the same rate table it gives a table equal to the first     *)
(* output in every column but last_updated (same columns, same base        *)
(* column, same price_in_* values), and so does a call on identical input. *)

SameButStamp(a, b) ==
    /\ a.cols = b.cols
    /\ Len(a.rows) = Len(b.rows)
    /\ \A r \in DOMAIN a.rows : \A i \in DOMAIN a.cols :
        a.cols[i] # Str_last_updated => a.rows[r][i] = b.rows[r][i]

C8_TransformIdempotent ==
    /\ pc \in {"fresh", "done"} =>
        /\ SameButStamp(heap[df2], prev)
        /\ xform = "completed" =>
            heap[df2].cols[BaseIndex(heap[df2])] = quote.cols[BaseIndex(quote)]
    /\ pc = "done" => SameButStamp(heap[returned], prev)

\* both later calls converted, a price_in_PKR column also matches pkr, and
\* the time stamps of the calls differ
C8_Reapplied ==
    /\ pc = "done" /\ xform = "completed"
    /\ HasCol(prev, Str_price_in_ \o Str_PKR)
    /\ HasCol(prev, Str_price_in_ \o Str_USD)
    /\ Column(heap[df2], Str_last_updated)[1] # Column(prev, Str_last_updated)[1]
    /\ Column(heap[returned], Str_last_updated)[1] # Column(prev, Str_last_updated)[1]

-----------------------------------------------------------------------------
(* C9: the QuoteTable is never mutated after creation: after transform ran *)
(* on a non-aborting input, the table extract produced still has the       *)
(* columns and values it had, and the ConvertedTable is a distinct table.  *)

C9_QuoteTableNotMutated ==
    (xform = "completed" /\ pc \in {"load", "return", "returned"}) =>
        /\ heap[df] = quote
        /\ df2 # df

-----------------------------------------------------------------------------
(* C10: every run invokes Extract, Transform, Load in this order, all      *)
(* three even when an earlier stage degraded; the lines of a run are, in   *)
(* order, Extract started, one Extract end line, Transform started, the    *)
(* skipped-rate warnings, one Transform end line, Load started, one Load   *)
(* end line; run_etl returns the table transform returned whatever Load    *)
(* did.                                                                    *)

IsWarning(l) == l.stage = "Transform" /\ l.event = "skipping invalid rate for"

LogShape ==
    LET n == Len(log) IN
    /\ n >= 6
    /\ log[1] = Line("Extract", "started", <<>>)
    /\ log[2].stage = "Extract" /\ log[2].event \in {"completed successfully", "failed"}
    /\ log[3] = Line("Transform", "started", <<>>)
    /\ \A i \in 4..(n - 3) : IsWarning(log[i])
    /\ log[n - 2].stage = "Transform" /\ ~IsWarning(log[n - 2]) /\ log[n - 2].event # "started"
    /\ log[n - 1] = Line("Load", "started", <<>>)
    /\ log[n].stage = "Load" /\ log[n].event \in {"completed", "failed", "aborted (empty DataFrame)"}

C10_StagesInOrder ==
    (pc \in {"returned", "raised"}) =>
        /\ pc = "returned"
        /\ LogShape
        /\ xform # "none" /\ loadResult # "none"
        /\ returned = df2
        /\ heap[returned] = prev

====
